---- MODULE Spec2Model ----
(***************************************************************************)
(* Exposure and control core of the ZWO ASI Camera class                    *)
(* (scripts/test_camera_poll_interval.py).                                  *)
(*                                                                          *)
(* SpecControl : the control registry (_control_getter / _control_setter)   *)
(*               applied to every capability table and request of the       *)
(*               bounded input sets.                                        *)
(* Spec        : take_exposure callers, completion pollers, the device and  *)
(*               the readiness environment, interleaved step by step.       *)
(* SpecVideo   : start_video and stop_video calls and the video threads     *)
(*               (_video_readout), interleaved step by step.                *)
(* SpecShared  : one take_exposure caller and one video caller on the same  *)
(*               camera.                                                    *)
(* SpecReadout : _readout and the frame decoding of the video loop applied  *)
(*               to every status, image type, bit depth and raw sample of   *)
(*               the bounded input sets.                                    *)
(* SpecReadiness : the readiness report read in a changing environment.     *)
(* SpecFair    : Spec with every thread scheduled fairly.                   *)
(* SpecMount   : Mount.slew_to_target (huntsman/pocs/mount/bisque.py)       *)
(*               called from two threads on a mount that slews.             *)
(***************************************************************************)
EXTENDS Integers, Sequences, FiniteSets, TLC

VARIABLES
    connected,          \* Camera._connected
    control_info,       \* Camera._control_info, the capability table
    control_value,      \* device side: value last accepted by set_control_value
    last_call,          \* observation of the most recent direct registry call
    exposure_event,     \* Camera._exposure_event.is_set()  (TRUE = gate clear)
    exposure_status,    \* device side: get_exposure_status
    pc,                 \* position of each take_exposure caller
    call,               \* locals and outcome of each caller's current call
    n_exposures,        \* number of completion pollers created so far
    poll,               \* state of each completion poller
    poll_log,           \* how the poller that finished last ended
    video_event,        \* Camera._video_event.is_set()  (TRUE = stop requested)
    capturing,          \* device side: video capture running
    vpc,                \* position of each start_video / stop_video caller
    vclean,             \* bookkeeping of each caller's stop_video call under way
    vlog,               \* how the start_video / stop_video call that returned last ended
    n_sessions,         \* number of video threads started so far
    loop,               \* state of each video thread (_video_readout)
    readout,            \* observation of one _readout / frame decode
    readiness,          \* the readiness environment and the last report read
    mount               \* the mount and its slew_to_target callers

\* Variables of the video session, and of the readout and readiness probes
\* and the mount.
video_vars == <<video_event, capturing, vpc, vclean, vlog, n_sessions, loop>>

probe_vars == <<readout, readiness, mount>>

vars == <<connected, control_info, control_value, last_call, exposure_event,
          exposure_status, pc, call, n_exposures, poll, poll_log,
          video_vars, probe_vars>>

(***************************************************************************)
(* Bounds                                                                   *)
(***************************************************************************)
\* Largest max_value of a capability entry; requests range over 0..ValueLimit+1.
ValueLimit == 2

(***************************************************************************)
(* Parameter values                                                         *)
(***************************************************************************)
Nums == 0 .. (ValueLimit + 1)

\* The 'AUTO' sentinel of _control_setter (line 350).
AUTO == [kind |-> "AUTO", n |-> 0]

Num(n) == [kind |-> "num", n |-> n]

Values == {Num(n) : n \in Nums} \cup {AUTO}

\* A control the device has not been sent a value for.
NoValue == [kind |-> "none", n |-> 0]

\* Parameter names used by the class.
Params == {"EXPOSURE", "GAIN"}

\* Entries of the table returned by get_control_caps.
CapEntries ==
    {e \in [min_value : 1 .. ValueLimit, max_value : 1 .. ValueLimit,
            is_writable : BOOLEAN, is_auto_supported : BOOLEAN] :
        e.min_value <= e.max_value}

\* Capability tables: any subset of the parameters, any entry for each.
CapTables == UNION {[D -> CapEntries] : D \in SUBSET Params}

\* Outcomes of one driver command: accepted, or an exception of that class.
DriverErrors == {"RuntimeError", "OSError"}

DriverOutcomes == {"ok"} \cup DriverErrors

(***************************************************************************)
(* Control registry                                                         *)
(***************************************************************************)
\* Camera._driver.set_control_value: one command carrying value v.
DriverSetControl(v, d, after) ==
    [sent |-> <<v>>, applied |-> (d = "ok"), err |-> IF d = "ok" THEN after ELSE d]

NoDriverCall(e) == [sent |-> <<>>, applied |-> FALSE, err |-> e]

\* _control_setter failing fast: an out-of-range value is rejected unsent.
ControlSetterFailFast(info, control_type, value, d) ==
    IF control_type \notin DOMAIN info
    THEN NoDriverCall("NotSupported")
    ELSE IF ~info[control_type].is_writable
    THEN NoDriverCall("NotSupported")
    ELSE IF value /= AUTO
    THEN IF value.n > info[control_type].max_value
            \/ value.n < info[control_type].min_value
         THEN NoDriverCall("IllegalValue")
         ELSE DriverSetControl(value, d, "none")
    ELSE IF ~info[control_type].is_auto_supported
    THEN NoDriverCall("IllegalValue")
    ELSE DriverSetControl(value, d, "none")

\* _control_setter without the is_auto_supported check.
ControlSetterAutoUnchecked(info, control_type, value, d) ==
    IF control_type \notin DOMAIN info
    THEN NoDriverCall("NotSupported")
    ELSE IF ~info[control_type].is_writable
    THEN NoDriverCall("NotSupported")
    ELSE IF value /= AUTO
    THEN IF value.n > info[control_type].max_value
         THEN DriverSetControl(Num(info[control_type].max_value), d, "IllegalValue")
         ELSE IF value.n < info[control_type].min_value
         THEN DriverSetControl(Num(info[control_type].min_value), d, "IllegalValue")
         ELSE DriverSetControl(value, d, "none")
    ELSE DriverSetControl(value, d, "none")

\* _control_setter without the is_writable check.
ControlSetterWritableUnchecked(info, control_type, value, d) ==
    IF control_type \notin DOMAIN info
    THEN NoDriverCall("NotSupported")
    ELSE IF value /= AUTO
    THEN IF value.n > info[control_type].max_value
         THEN DriverSetControl(Num(info[control_type].max_value), d, "IllegalValue")
         ELSE IF value.n < info[control_type].min_value
         THEN DriverSetControl(Num(info[control_type].min_value), d, "IllegalValue")
         ELSE DriverSetControl(value, d, "none")
    ELSE IF ~info[control_type].is_auto_supported
    THEN NoDriverCall("IllegalValue")
    ELSE DriverSetControl(value, d, "none")

\* _control_setter sending the requested value as it came before it raises
\* IllegalValue.
ControlSetterUnclipped(info, control_type, value, d) ==
    IF control_type \notin DOMAIN info
    THEN NoDriverCall("NotSupported")
    ELSE IF ~info[control_type].is_writable
    THEN NoDriverCall("NotSupported")
    ELSE IF value /= AUTO
    THEN IF value.n > info[control_type].max_value
            \/ value.n < info[control_type].min_value
         THEN DriverSetControl(value, d, "IllegalValue")
         ELSE DriverSetControl(value, d, "none")
    ELSE IF ~info[control_type].is_auto_supported
    THEN NoDriverCall("IllegalValue")
    ELSE DriverSetControl(value, d, "none")

\* Camera._control_setter(control_type, value); d is the driver's outcome
\* should a command reach it.
ControlSetter(info, control_type, value, d) ==
    IF control_type \notin DOMAIN info
    THEN NoDriverCall("NotSupported")
    ELSE IF ~info[control_type].is_writable
    THEN NoDriverCall("NotSupported")
    ELSE IF value /= AUTO
    THEN IF value.n > info[control_type].max_value
         THEN DriverSetControl(Num(info[control_type].max_value), d, "IllegalValue")
         ELSE IF value.n < info[control_type].min_value
         THEN DriverSetControl(Num(info[control_type].min_value), d, "IllegalValue")
         ELSE DriverSetControl(value, d, "none")
    ELSE IF ~info[control_type].is_auto_supported
    THEN NoDriverCall("IllegalValue")
    ELSE DriverSetControl(value, d, "none")

\* Camera._control_getter(control_type): number of driver get commands and error.
ControlGetter(info, control_type, d) ==
    IF control_type \in DOMAIN info
    THEN [gets |-> 1, err |-> IF d = "ok" THEN "none" ELSE d]
    ELSE [gets |-> 0, err |-> "NotSupported"]

\* Device state after a setter call with result r on control_type.
ApplySet(cv, control_type, r) ==
    IF r.applied THEN [cv EXCEPT ![control_type] = r.sent[1]] ELSE cv

NoCall == [op |-> "none", name |-> "", value |-> NoValue, sent |-> <<>>,
           gets |-> 0, err |-> "none", d |-> "ok"]

\* A direct call of _control_setter (as made by the gain, target_temperature
\* and cooling_enabled property setters).
ControlSetCall(name, value, d) ==
    LET r == ControlSetter(control_info, name, value, d) IN
    /\ connected
    /\ control_value' = ApplySet(control_value, name, r)
    /\ last_call' = [op |-> "set", name |-> name, value |-> value,
                     sent |-> r.sent, gets |-> 0, err |-> r.err, d |-> d]
    /\ UNCHANGED <<video_vars, probe_vars, connected, control_info, exposure_event, exposure_status,
                   pc, call, n_exposures, poll, poll_log>>

\* A direct call of _control_getter (as made by the property getters).
ControlGetCall(name, d) ==
    LET r == ControlGetter(control_info, name, d) IN
    /\ connected
    /\ last_call' = [op |-> "get", name |-> name, value |-> NoValue,
                     sent |-> <<>>, gets |-> r.gets, err |-> r.err, d |-> d]
    /\ UNCHANGED <<video_vars, probe_vars, connected, control_info, control_value, exposure_event,
                   exposure_status, pc, call,
                   n_exposures, poll, poll_log>>

(***************************************************************************)
(* Exposure controller: callers, pollers, device, readiness                 *)
(***************************************************************************)
\* Threads that call take_exposure.
Callers == {"c1", "c2"}

\* Camera._subcomponent_names entries that are configured.
Subcomponents == {"filterwheel"}

\* Most completion pollers (exposures started) in one behaviour.
MaxExposures == 2

\* Polling intervals the CountdownTimer of _poll_exposure lasts (timeout / interval).
PollTicks == 1

Pollers == 1 .. MaxExposures

\* Durations passed to take_exposure, in the units of the capability table.
SecondsVals == {1, ValueLimit + 1}

EmptyTable == [p \in {} |-> 0]

NominalEntry ==
    [min_value |-> 1, max_value |-> ValueLimit, is_writable |-> TRUE,
     is_auto_supported |-> TRUE]

\* Tables get_control_caps may return to the exposure controller.
ExposureTables ==
    {[p \in Params |-> NominalEntry],
     [p \in Params |-> IF p = "EXPOSURE"
                       THEN [NominalEntry EXCEPT !.is_writable = FALSE]
                       ELSE NominalEntry],
     [p \in {"EXPOSURE"} |-> NominalEntry]}

\* Exception classes the handler of take_exposure catches (line 483):
\* RuntimeError, ValueError, PanError and the PanError subclasses.
CaughtAtStart ==
    {"RuntimeError", "ValueError", "PanError", "IllegalValue", "NotSupported", "Timeout"}

\* Exception classes that are PanError or a subclass of it.
PanErrors == {"PanError", "IllegalValue", "NotSupported", "Timeout"}

NoLocals ==
    [err |-> "none", reason |-> "none", problems |-> {}, unready |-> {}]

Outcome(e, why) == [NoLocals EXCEPT !.err = e, !.reason = why]

NoPoll == [pc |-> "none", ticks |-> 0, result |-> "none"]

\* Camera.is_exposing (lines 164-167).
IsExposing(status) == status = "WORKING"

\* The readiness report: one boolean per subsystem.  The not_exposing entry
\* (read at line 459) is the negation of the class's own is_exposing.
Readiness(temp, subs, status) ==
    [k \in {"temperature_stable", "not_exposing"} \cup Subcomponents |->
        IF k = "temperature_stable" THEN temp
        ELSE IF k = "not_exposing" THEN ~IsExposing(status)
        ELSE subs[k]]

\* is_ready without the subcomponents' entries.
IsReadyCameraOnly(report) == report["temperature_stable"] /\ report["not_exposing"]

\* is_ready: the AND of the report's entries.
IsReady(report) == \A k \in DOMAIN report : report[k]

\* The problems list of take_exposure (lines 451-460), as the set of the
\* subsystems it names.
Problems(report) ==
    (IF ~report["temperature_stable"] THEN {"temperature_stable"} ELSE {})
    \cup {s \in Subcomponents : ~report[s]}
    \cup (IF ~report["not_exposing"] THEN {"not_exposing"} ELSE {})

\* The entries of a report that are false.
Unready(report) == {k \in DOMAIN report : ~report[k]}

\* What the readiness queries may answer: the temperature and the
\* subcomponents change on their own, so each query draws its answer.
TempAnswers == BOOLEAN

SubAnswers == [Subcomponents -> BOOLEAN]

\* Callers that may still create a poller.
InCall == {c \in Callers : pc[c] \notin {"idle", "done", "wait"}}

\* Camera.connect (lines 171-193): reads the capability table once.
Connect(tables) ==
    /\ ~connected
    /\ connected' = TRUE
    /\ control_info' \in tables
    /\ UNCHANGED <<video_vars, probe_vars,
                   control_value, last_call, exposure_event, exposure_status,
                   pc, call, n_exposures, poll, poll_log>>

\* take_exposure, lines 443-445: the two assertions.  A call begins only while
\* the exposures started and the calls under way stay within MaxExposures.
Call(c, has_filename) ==
    /\ pc[c] \in {"idle", "done"}
    /\ n_exposures + Cardinality(InCall) < MaxExposures
    /\ IF ~connected
       THEN /\ pc' = [pc EXCEPT ![c] = "done"]
            /\ call' = [call EXCEPT ![c] = Outcome("AssertionError", "not_connected")]
       ELSE IF ~has_filename
       THEN /\ pc' = [pc EXCEPT ![c] = "done"]
            /\ call' = [call EXCEPT ![c] = Outcome("AssertionError", "no_filename")]
       ELSE /\ pc' = [pc EXCEPT ![c] = "check_ready"]
            /\ call' = [call EXCEPT ![c] = NoLocals]
    /\ UNCHANGED <<video_vars, probe_vars, connected, control_info, control_value, last_call,
                   exposure_event, exposure_status, n_exposures, poll, poll_log>>

\* take_exposure, line 448 (the go/no-go check) and, when ready, line 471
\* (_create_fits_header reads GAIN through _control_getter, line 327).
CheckReady(c, temp, subs, d) ==
    LET g == ControlGetter(control_info, "GAIN", d)
        report == Readiness(temp, subs, exposure_status) IN
    /\ pc[c] = "check_ready"
    /\ IF ~IsReady(report)
       THEN /\ pc' = [pc EXCEPT ![c] = "build_msg"]
            /\ call' = [call EXCEPT ![c].unready = Unready(report)]
       ELSE IF g.err /= "none"
       THEN /\ pc' = [pc EXCEPT ![c] = "done"]
            /\ call' = [call EXCEPT ![c] = Outcome(g.err, "header")]
       ELSE /\ pc' = [pc EXCEPT ![c] = "check_gate"]
            /\ call' = call
    /\ UNCHANGED <<video_vars, probe_vars, connected, control_info, control_value, last_call,
                   exposure_event, exposure_status, n_exposures, poll, poll_log>>

\* take_exposure, lines 450-464: readiness is read again for the message.
BuildMessage(c, temp, subs) ==
    /\ pc[c] = "build_msg"
    /\ pc' = [pc EXCEPT ![c] = "done"]
    /\ call' = [call EXCEPT ![c] =
                  [Outcome("PanError", "not_ready") EXCEPT
                      !.problems = Problems(Readiness(temp, subs, exposure_status))]]
    /\ UNCHANGED <<video_vars, probe_vars, connected, control_info, control_value, last_call,
                   exposure_event, exposure_status, n_exposures, poll, poll_log>>

\* The gate check setting the event on its way out.
CheckGateResets(c) ==
    /\ pc[c] = "check_gate"
    /\ IF ~exposure_event
       THEN /\ pc' = [pc EXCEPT ![c] = "done"]
            /\ call' = [call EXCEPT ![c] = Outcome("PanError", "gate_pending")]
            /\ exposure_event' = TRUE
       ELSE /\ pc' = [pc EXCEPT ![c] = "clear_gate"]
            /\ call' = call
            /\ UNCHANGED exposure_event
    /\ UNCHANGED <<video_vars, probe_vars, connected, control_info, control_value, last_call,
                   exposure_status, n_exposures, poll, poll_log>>

\* take_exposure, lines 473-475: the gate is read.
CheckGate(c) ==
    /\ pc[c] = "check_gate"
    /\ IF ~exposure_event
       THEN /\ pc' = [pc EXCEPT ![c] = "done"]
            /\ call' = [call EXCEPT ![c] = Outcome("PanError", "gate_pending")]
       ELSE /\ pc' = [pc EXCEPT ![c] = "clear_gate"]
            /\ call' = call
    /\ UNCHANGED <<video_vars, probe_vars, connected, control_info, control_value, last_call,
                   exposure_event, exposure_status, n_exposures, poll, poll_log>>

\* take_exposure, line 478: the gate is set to pending.
ClearGate(c) ==
    /\ pc[c] = "clear_gate"
    /\ exposure_event' = FALSE
    /\ pc' = [pc EXCEPT ![c] = "start_set"]
    /\ UNCHANGED <<video_vars, probe_vars, connected, control_info, control_value, last_call,
                   exposure_status, call,
                   n_exposures, poll, poll_log>>

\* An exception of class e leaves _start_exposure (lines 480-485): a class of
\* the except clause enters the handler, any other class leaves take_exposure.
Raise(c, e) ==
    IF e \in CaughtAtStart
    THEN /\ pc' = [pc EXCEPT ![c] = "except"]
         /\ call' = call
    ELSE /\ pc' = [pc EXCEPT ![c] = "done"]
         /\ call' = [call EXCEPT ![c] = Outcome(e, "start_failed")]

\* _start_exposure, line 287: the duration is applied through the registry.
\* The seconds argument is drawn here, where the call first reads it.
StartSetExposure(c, seconds, d) ==
    LET r == ControlSetter(control_info, "EXPOSURE", Num(seconds), d) IN
    /\ pc[c] = "start_set"
    /\ control_value' = ApplySet(control_value, "EXPOSURE", r)
    /\ IF r.err = "none"
       THEN /\ pc' = [pc EXCEPT ![c] = "start_dev"]
            /\ call' = call
       ELSE Raise(c, r.err)
    /\ UNCHANGED <<video_vars, probe_vars, connected, control_info, last_call, exposure_event,
                   exposure_status, n_exposures, poll, poll_log>>

\* _start_exposure, lines 288-294: get_roi_format, then start_exposure.
StartDevice(c, d_roi, d_start) ==
    /\ pc[c] = "start_dev"
    /\ IF d_roi /= "ok"
       THEN /\ Raise(c, d_roi)
            /\ UNCHANGED exposure_status
       ELSE IF d_start /= "ok"
       THEN /\ Raise(c, d_start)
            /\ UNCHANGED exposure_status
       ELSE /\ exposure_status' = "WORKING"
            /\ pc' = [pc EXCEPT ![c] = "schedule"]
            /\ call' = call
    /\ UNCHANGED <<video_vars, probe_vars, connected, control_info, control_value, last_call,
                   exposure_event, n_exposures, poll, poll_log>>

\* take_exposure, lines 483-485: the handler restores the gate and raises PanError.
ExceptStart(c) ==
    /\ pc[c] = "except"
    /\ exposure_event' = TRUE
    /\ pc' = [pc EXCEPT ![c] = "done"]
    /\ call' = [call EXCEPT ![c] = Outcome("PanError", "start_failed")]
    /\ UNCHANGED <<video_vars, probe_vars, connected, control_info, control_value, last_call,
                   exposure_status, n_exposures, poll, poll_log>>

\* take_exposure, lines 488-497: the poller's timer is started; a blocking
\* caller goes on to wait.  The blocking argument is drawn here, where the
\* call first reads it.
Schedule(c, blocking) ==
    /\ pc[c] = "schedule"
    /\ n_exposures < MaxExposures
    /\ n_exposures' = n_exposures + 1
    /\ poll' = [poll EXCEPT ![n_exposures + 1] =
                  [pc |-> "scheduled", ticks |-> 0, result |-> "none"]]
    /\ IF blocking
       THEN /\ pc' = [pc EXCEPT ![c] = "wait"]
            /\ call' = call
       ELSE /\ pc' = [pc EXCEPT ![c] = "done"]
            /\ call' = [call EXCEPT ![c] = Outcome("none", "started")]
    /\ UNCHANGED <<video_vars, probe_vars, connected, control_info, control_value, last_call,
                   exposure_event, exposure_status, poll_log>>

\* take_exposure's blocking branch returning without the wait of line 495.
WaitGateUnguarded(c) ==
    /\ pc[c] = "wait"
    /\ pc' = [pc EXCEPT ![c] = "done"]
    /\ call' = [call EXCEPT ![c] = Outcome("none", "waited")]
    /\ UNCHANGED <<video_vars, probe_vars, connected, control_info, control_value, last_call,
                   exposure_event, exposure_status, n_exposures, poll, poll_log>>

\* take_exposure, lines 493-497: self._exposure_event.wait() returns.
WaitGate(c) ==
    /\ pc[c] = "wait"
    /\ exposure_event
    /\ pc' = [pc EXCEPT ![c] = "done"]
    /\ call' = [call EXCEPT ![c] = Outcome("none", "waited")]
    /\ UNCHANGED <<video_vars, probe_vars, connected, control_info, control_value, last_call,
                   exposure_event, exposure_status, n_exposures, poll, poll_log>>

\* The Timer of line 488 fires: _poll_exposure starts its CountdownTimer (line 375).
PollStart(p) ==
    /\ poll[p].pc = "scheduled"
    /\ poll' = [poll EXCEPT ![p] = [pc |-> "polling", ticks |-> PollTicks,
                                    result |-> "none"]]
    /\ UNCHANGED <<video_vars, probe_vars, connected, control_info, control_value, last_call,
                   exposure_event, exposure_status, pc, call, n_exposures, poll_log>>

\* _poll_exposure going on to the readout when its timer has expired.
PollCheckReadsOnTimeout(p, d) ==
    /\ poll[p].pc = "polling"
    /\ poll' = [poll EXCEPT ![p] =
                  IF d /= "ok"
                  THEN [pc |-> "finally", ticks |-> 0, result |-> d]
                  ELSE IF IsExposing(exposure_status)
                  THEN IF poll[p].ticks = 0
                       THEN [pc |-> "readout", ticks |-> 0, result |-> "none"]
                       ELSE [poll[p] EXCEPT !.ticks = @ - 1]
                  ELSE [pc |-> "readout", ticks |-> 0, result |-> "none"]]
    /\ UNCHANGED <<video_vars, probe_vars, connected, control_info, control_value, last_call,
                   exposure_event, exposure_status, pc, call, n_exposures, poll_log>>

\* _poll_exposure, lines 377-385: one evaluation of the loop condition and body.
PollCheck(p, d) ==
    /\ poll[p].pc = "polling"
    /\ poll' = [poll EXCEPT ![p] =
                  IF d /= "ok"
                  THEN [pc |-> "finally", ticks |-> 0, result |-> d]
                  ELSE IF IsExposing(exposure_status)
                  THEN IF poll[p].ticks = 0
                       THEN [pc |-> "finally", ticks |-> 0, result |-> "Timeout"]
                       ELSE [poll[p] EXCEPT !.ticks = @ - 1]
                  ELSE [pc |-> "readout", ticks |-> 0, result |-> "none"]]
    /\ UNCHANGED <<video_vars, probe_vars, connected, control_info, control_value, last_call,
                   exposure_event, exposure_status, pc, call, n_exposures, poll_log>>

\* Result of _readout (lines 296-323) for a final status and the outcome d of
\* get_exposure_data.
ReadoutResult(status, d) ==
    IF status = "SUCCESS"
    THEN IF d = "ok" THEN "ok"
         ELSE IF d = "RuntimeError" THEN "PanError"
         ELSE d
    ELSE "PanError"

\* _poll_exposure, line 388: the else branch calls _readout.
PollReadout(p, d) ==
    /\ poll[p].pc = "readout"
    /\ poll' = [poll EXCEPT ![p] =
                  [pc |-> "finally", ticks |-> 0,
                   result |-> ReadoutResult(exposure_status, d)]]
    /\ UNCHANGED <<video_vars, probe_vars, connected, control_info, control_value, last_call,
                   exposure_event, exposure_status, pc, call, n_exposures, poll_log>>

\* _poll_exposure, lines 389-390: the finally clause sets the event.
PollFinally(p) ==
    /\ poll[p].pc = "finally"
    /\ exposure_event' = TRUE
    /\ poll' = [poll EXCEPT ![p] = [pc |-> "done", ticks |-> 0, result |-> "none"]]
    /\ poll_log' = poll[p].result
    /\ UNCHANGED <<video_vars, probe_vars, connected, control_info, control_value, last_call,
                   exposure_status, pc, call, n_exposures>>

\* The device ends an exposure: get_exposure_status leaves WORKING.
DeviceFinish(status) ==
    /\ exposure_status = "WORKING"
    /\ exposure_status' = status
    /\ UNCHANGED <<video_vars, probe_vars, connected, control_info, control_value, last_call,
                   exposure_event, pc, call,
                   n_exposures, poll, poll_log>>

(***************************************************************************)
(* Specifications                                                           *)
(***************************************************************************)
(***************************************************************************)
(* Video session: start_video, stop_video and the video thread              *)
(***************************************************************************)
\* The thread that calls start_video and stop_video.
Users == {"u1"}

\* Largest max_frames argument of start_video.
MaxFrames == 2

\* The video threads one behaviour may start, in the order they are started.
Sessions == {1, 2}

\* max_frames arguments: int(max_frames) (line 215) accepts zero as well.
FrameCounts == 0 .. MaxFrames

\* frame_number of a video thread before the for statement has bound it.
Unbound == -1

\* Locals of _video_readout (lines 243-245, 253) and bookkeeping: req is the
\* number of frames pulled when a caller's stop_video first set the flag
\* during this thread's run (-1: no such call); clean tells, during the
\* thread's own stop_video call, that no start_video statement has come
\* between the call's two statements.
NoLoop == [pc |-> "none", max_frames |-> 0, frame_number |-> Unbound,
           good_frames |-> 0, bad_frames |-> 0, req |-> -1, clean |-> TRUE]

\* Calls of get_video_data a video thread has completed.
Pulls(l) == l.good_frames + l.bad_frames

\* Video threads between thread start and their pass through the loop.
Looping == {s \in Sessions : loop[s].pc \in {"init", "check", "pull"}}

\* Video threads that have been started and have not ended.
ActiveLoops == {s \in Sessions : loop[s].pc \in {"init", "check", "pull", "after", "own_stop"}}

\* Callers inside start_video.
InStart == {u \in Users : vpc[u] \in {"sv_capture", "sv_clear", "sv_thread"}}

\* A start_video statement touching the device or the flag comes between the
\* two statements of every stop_video call under way.
Disturbed(f) ==
    [s \in DOMAIN f |-> IF f[s].pc = "own_stop" THEN [f[s] EXCEPT !.clean = FALSE] ELSE f[s]]

DisturbedCallers == [u \in Users |-> IF vpc[u] = "st_device" THEN FALSE ELSE vclean[u]]

\* start_video, lines 196-198: the frame duration is applied through the
\* registry; an error of the setter leaves start_video.
StartVideoSet(u, seconds, d) ==
    /\ connected
    /\ vpc[u] = "idle"
    /\ n_sessions + Cardinality(InStart) < Cardinality(Sessions)
    /\ LET r == ControlSetter(control_info, "EXPOSURE", Num(seconds), d)
       IN  /\ control_value' = ApplySet(control_value, "EXPOSURE", r)
           /\ vlog' = IF r.err = "none" THEN vlog ELSE r.err
           /\ vpc' = [vpc EXCEPT ![u] = IF r.err = "none" THEN "sv_capture" ELSE "idle"]
    /\ UNCHANGED <<connected, control_info, last_call, exposure_event,
                   exposure_status, pc, call, n_exposures, poll, poll_log,
                   video_event, capturing, vclean, n_sessions, loop, probe_vars>>

\* start_video, lines 202-221: get_roi_format, then start_video_capture.
StartVideoCapture(u, d_roi, d_start) ==
    /\ vpc[u] = "sv_capture"
    /\ IF d_roi # "ok"
       THEN /\ vpc' = [vpc EXCEPT ![u] = "idle"]
            /\ vlog' = d_roi
            /\ UNCHANGED <<capturing, vclean, loop>>
       ELSE IF d_start # "ok"
       THEN /\ vpc' = [vpc EXCEPT ![u] = "idle"]
            /\ vlog' = d_start
            /\ UNCHANGED <<capturing, vclean, loop>>
       ELSE /\ vpc' = [vpc EXCEPT ![u] = "sv_clear"]
            /\ capturing' = TRUE
            /\ vclean' = DisturbedCallers
            /\ loop' = Disturbed(loop)
            /\ UNCHANGED vlog
    /\ UNCHANGED <<connected, control_info, control_value, last_call, exposure_event,
                   exposure_status, pc, call, n_exposures, poll, poll_log,
                   video_event, n_sessions, probe_vars>>

\* start_video, line 222: the stop flag is reset.
StartVideoClear(u) ==
    /\ vpc[u] = "sv_clear"
    /\ video_event' = FALSE
    /\ vpc' = [vpc EXCEPT ![u] = "sv_thread"]
    /\ vclean' = DisturbedCallers
    /\ loop' = Disturbed(loop)
    /\ UNCHANGED <<connected, control_info, control_value, last_call, exposure_event,
                   exposure_status, pc, call, n_exposures, poll, poll_log,
                   capturing, vlog, n_sessions, probe_vars>>

\* start_video, line 223: the video thread is started.  The max_frames
\* argument is drawn here, where the thread first reads it.
StartVideoThread(u, max_frames) ==
    /\ vpc[u] = "sv_thread"
    /\ n_sessions' = n_sessions + 1
    /\ loop' = [loop EXCEPT ![n_sessions + 1] =
                    [NoLoop EXCEPT !.pc = "init", !.max_frames = max_frames]]
    /\ vpc' = [vpc EXCEPT ![u] = "idle"]
    /\ vlog' = "none"
    /\ UNCHANGED <<connected, control_info, control_value, last_call, exposure_event,
                   exposure_status, pc, call, n_exposures, poll, poll_log,
                   video_event, capturing, vclean, probe_vars>>

\* The flag set by a caller's stop_video reaches every thread in its run.
Requested(f) ==
    [s \in DOMAIN f |->
        IF f[s].pc \in {"init", "check", "pull"} /\ f[s].req = -1
        THEN [f[s] EXCEPT !.req = Pulls(f[s])]
        ELSE f[s]]

\* stop_video, line 227, called by a caller: the stop flag is set.
StopVideoSet(u) ==
    /\ connected
    /\ vpc[u] = "idle"
    /\ video_event' = TRUE
    /\ vpc' = [vpc EXCEPT ![u] = "st_device"]
    /\ vclean' = [vclean EXCEPT ![u] = TRUE]
    /\ loop' = Requested(loop)
    /\ UNCHANGED <<connected, control_info, control_value, last_call, exposure_event,
                   exposure_status, pc, call, n_exposures, poll, poll_log,
                   capturing, vlog, n_sessions, probe_vars>>

\* stop_video refusing to stop a capture that is not running.
StopVideoDeviceStrict(u, d) ==
    /\ vpc[u] = "st_device"
    /\ vpc' = [vpc EXCEPT ![u] = "idle"]
    /\ vlog' = (IF ~capturing THEN "PanError" ELSE IF d = "ok" THEN "none" ELSE d)
    /\ vclean' = [vclean EXCEPT ![u] = TRUE]
    /\ capturing' = IF d = "ok" THEN FALSE ELSE capturing
    /\ UNCHANGED <<connected, control_info, control_value, last_call, exposure_event,
                   exposure_status, pc, call, n_exposures, poll, poll_log,
                   video_event, n_sessions, loop, probe_vars>>

\* stop_video, line 228: stop_video_capture.
StopVideoDevice(u, d) ==
    /\ vpc[u] = "st_device"
    /\ vpc' = [vpc EXCEPT ![u] = "idle"]
    /\ vlog' = (IF d = "ok" THEN "none" ELSE d)
    /\ vclean' = [vclean EXCEPT ![u] = TRUE]
    /\ capturing' = IF d = "ok" THEN FALSE ELSE capturing
    /\ UNCHANGED <<connected, control_info, control_value, last_call, exposure_event,
                   exposure_status, pc, call, n_exposures, poll, poll_log,
                   video_event, n_sessions, loop, probe_vars>>

\* How a video thread ends: by returning, or with the exception e.  Its
\* locals end with it.
Ended(l, e) == [NoLoop EXCEPT !.pc = IF e = "none" THEN "done" ELSE "crashed"]

\* _video_readout, lines 243-251: the counters are zeroed and the pad is
\* computed, which reads image_type from the device (get_roi_format).
LoopInit(s, d) ==
    /\ loop[s].pc = "init"
    /\ loop' = [loop EXCEPT ![s] =
                    IF d = "ok" THEN [loop[s] EXCEPT !.pc = "check"] ELSE Ended(loop[s], d)]
    /\ UNCHANGED <<connected, control_info, control_value, last_call, exposure_event,
                   exposure_status, pc, call, n_exposures, poll, poll_log,
                   video_event, capturing, vpc, vclean, vlog, n_sessions, probe_vars>>

\* _video_readout, lines 253-255: the for statement binds the next
\* frame_number, or ends when range(max_frames) is used up; the stop flag is
\* read and breaks the loop.
LoopCheck(s) ==
    /\ loop[s].pc = "check"
    /\ loop' = [loop EXCEPT ![s] =
                    IF loop[s].frame_number + 1 >= loop[s].max_frames
                    THEN [loop[s] EXCEPT !.pc = "after"]
                    ELSE [loop[s] EXCEPT !.frame_number = loop[s].frame_number + 1,
                                         !.pc = IF video_event THEN "after" ELSE "pull"]]
    /\ UNCHANGED <<connected, control_info, control_value, last_call, exposure_event,
                   exposure_status, pc, call, n_exposures, poll, poll_log,
                   video_event, capturing, vpc, vclean, vlog, n_sessions, probe_vars>>

\* What get_video_data may return: a frame while the device captures, None
\* when its timeout passes.
FrameAnswers == IF capturing THEN {"frame", "None"} ELSE {"None"}

\* _video_readout pulling a frame without counting a null result.
LoopPullDropsUncounted(s, data, d) ==
    /\ loop[s].pc = "pull"
    /\ data \in FrameAnswers
    /\ loop' = [loop EXCEPT ![s] =
                    IF d # "ok"
                    THEN Ended(loop[s], d)
                    ELSE [loop[s] EXCEPT
                            !.pc = "check",
                            !.good_frames = loop[s].good_frames + (IF data = "frame" THEN 1 ELSE 0)]]
    /\ UNCHANGED <<connected, control_info, control_value, last_call, exposure_event,
                   exposure_status, pc, call, n_exposures, poll, poll_log,
                   video_event, capturing, vpc, vclean, vlog, n_sessions, probe_vars>>

\* _video_readout, lines 257-272: one frame is pulled and written, or counted
\* as lost.
LoopPull(s, data, d) ==
    /\ loop[s].pc = "pull"
    /\ data \in FrameAnswers
    /\ loop' = [loop EXCEPT ![s] =
                    IF d # "ok"
                    THEN Ended(loop[s], d)
                    ELSE [loop[s] EXCEPT
                            !.pc = "check",
                            !.good_frames = loop[s].good_frames + (IF data = "frame" THEN 1 ELSE 0),
                            !.bad_frames = loop[s].bad_frames + (IF data = "frame" THEN 0 ELSE 1)]]
    /\ UNCHANGED <<connected, control_info, control_value, last_call, exposure_event,
                   exposure_status, pc, call, n_exposures, poll, poll_log,
                   video_event, capturing, vpc, vclean, vlog, n_sessions, probe_vars>>

\* _video_readout, lines 274-276 and stop_video, line 227: frame_number is
\* compared with max_frames - 1; reading it unbound raises NameError; on
\* equality the thread calls stop_video, which sets the flag.
LoopAfter(s) ==
    /\ loop[s].pc = "after"
    /\ IF loop[s].frame_number = Unbound
       THEN /\ loop' = [loop EXCEPT ![s] = Ended(loop[s], "NameError")]
            /\ UNCHANGED video_event
       ELSE IF loop[s].frame_number = loop[s].max_frames - 1
       THEN /\ loop' = [loop EXCEPT ![s] = [loop[s] EXCEPT !.pc = "own_stop", !.clean = TRUE]]
            /\ video_event' = TRUE
       ELSE /\ loop' = [loop EXCEPT ![s] = Ended(loop[s], "none")]
            /\ UNCHANGED video_event
    /\ UNCHANGED <<connected, control_info, control_value, last_call, exposure_event,
                   exposure_status, pc, call, n_exposures, poll, poll_log,
                   capturing, vpc, vclean, vlog, n_sessions, probe_vars>>

\* stop_video, line 228, called by the video thread, then the thread's
\* closing log line (lines 278-284).
LoopOwnStop(s, d) ==
    /\ loop[s].pc = "own_stop"
    /\ loop' = [loop EXCEPT ![s] = Ended(loop[s], IF d = "ok" THEN "none" ELSE d)]
    /\ capturing' = IF d = "ok" THEN FALSE ELSE capturing
    /\ UNCHANGED <<connected, control_info, control_value, last_call, exposure_event,
                   exposure_status, pc, call, n_exposures, poll, poll_log,
                   video_event, vpc, vclean, vlog, n_sessions, probe_vars>>

InitVideo ==
    /\ video_event = FALSE
    /\ capturing = FALSE
    /\ vpc = [u \in Users |-> "idle"]
    /\ vclean = [u \in Users |-> TRUE]
    /\ vlog = "none"
    /\ n_sessions = 0
    /\ loop = [s \in Sessions |-> NoLoop]

NextVideo ==
    \/ \E u \in Users, s \in SecondsVals, d \in DriverOutcomes : StartVideoSet(u, s, d)
    \/ \E u \in Users, d1 \in DriverOutcomes, d2 \in DriverOutcomes :
          StartVideoCapture(u, d1, d2)
    \/ \E u \in Users : StartVideoClear(u)
    \/ \E u \in Users, n \in FrameCounts : StartVideoThread(u, n)
    \/ \E u \in Users : StopVideoSet(u)
    \/ \E u \in Users, d \in DriverOutcomes : StopVideoDevice(u, d)
    \/ \E s \in Sessions, d \in DriverOutcomes : LoopInit(s, d)
    \/ \E s \in Sessions : LoopCheck(s)
    \/ \E s \in Sessions, data \in {"frame", "None"}, d \in DriverOutcomes :
          LoopPull(s, data, d)
    \/ \E s \in Sessions : LoopAfter(s)
    \/ \E s \in Sessions, d \in DriverOutcomes : LoopOwnStop(s, d)

(***************************************************************************)
(* Readout and frame decoding                                               *)
(***************************************************************************)
\* Sensor samples taken from each end of the sensor's range.
SampleLimit == 2

\* Width in bits of the padded raw format (lines 249 and 310).
RawBits == 16

\* Image types of the driver (the image_type property, lines 91-105) and the
\* width in bits of one sample of each.
ImageTypes == {"RAW8", "RAW16", "RGB24", "Y8"}

Width(image_type) == IF image_type = "RAW16" THEN RawBits ELSE 8

\* ADC bit depths (the bit_depth property, lines 107-110).
BitDepths == 8 .. RawBits

\* What get_exposure_status may answer, a string outside the documented four
\* included.
StatusAnswers == {"WORKING", "SUCCESS", "FAILED", "IDLE", "CLOSED"}

Pow2(k) == 2 ^ k

\* The samples of depth bits at both ends of the range.
SensorSamples(depth) ==
    (0 .. SampleLimit) \cup ((Pow2(depth) - 1 - SampleLimit) .. (Pow2(depth) - 1))

\* Raw words the driver may deliver: for RAW16 the sensor sample in the high
\* bits with the pad bits all zero or all one, otherwise an 8-bit sample.
RawWords(image_type, depth) ==
    IF image_type = "RAW16"
    THEN {n * Pow2(RawBits - depth) + low :
            n \in SensorSamples(depth), low \in {0, Pow2(RawBits - depth) - 1}}
    ELSE SensorSamples(8)

\* np.right_shift on unsigned samples.
RightShift(x, k) == x \div Pow2(k)

\* pad_bits as the depth itself.
PadBitsAsDepth(image_type, depth) == IF image_type = "RAW16" THEN depth ELSE 0

\* pad_bits (lines 247-251 and 309-310).
PadBits(image_type, depth) == IF image_type = "RAW16" THEN RawBits - depth ELSE 0

\* _readout, lines 307-311: the sample is shifted only for RAW16.
ReadoutDecode(image_type, depth, raw) ==
    IF image_type = "RAW16" THEN RightShift(raw, PadBits(image_type, depth)) ELSE raw

\* _video_readout, lines 247-251 and 268: the sample is always shifted, by
\* pad_bits.
VideoDecode(image_type, depth, raw) == RightShift(raw, PadBits(image_type, depth))

\* The status _readout puts into its message (lines 322-323).
ReadoutDetail(status) ==
    IF status \in {"SUCCESS", "FAILED", "IDLE"} THEN "" ELSE status

\* The readout probe at rest, and with the inputs of one readout.
NoReadout ==
    [kind |-> "none", status |-> "IDLE", image_type |-> "RAW16", depth |-> RawBits,
     raw |-> 0, written |-> <<>>, err |-> "none", detail |-> "", d |-> "ok"]

ReadoutInputs ==
    UNION {{[NoReadout EXCEPT !.kind = "input", !.status = st, !.image_type = t,
                              !.depth = b, !.raw = w] :
               st \in StatusAnswers, w \in RawWords(t, b)} :
           t \in ImageTypes, b \in BitDepths}

\* A call of _readout(filename, width, height, header) (lines 296-323); d is
\* the outcome of get_exposure_data.
SingleReadout(d) ==
    /\ readout.kind = "input"
    /\ LET e == ReadoutResult(readout.status, d)
       IN  readout' = [readout EXCEPT
                         !.kind = "single",
                         !.d = d,
                         !.err = IF e = "ok" THEN "none" ELSE e,
                         !.detail = IF e = "ok" THEN "" ELSE ReadoutDetail(readout.status),
                         !.written = IF e = "ok"
                                     THEN <<ReadoutDecode(readout.image_type, readout.depth, readout.raw)>>
                                     ELSE <<>>]
    /\ UNCHANGED <<connected, control_info, control_value, last_call, exposure_event,
                   exposure_status, pc, call, n_exposures, poll, poll_log,
                   video_vars, readiness, mount>>

\* One pass of the video loop that gets a frame (lines 257-270); d is the
\* outcome of get_video_data.
VideoFrame(d) ==
    /\ readout.kind = "input"
    /\ readout' = [readout EXCEPT
                     !.kind = "video",
                     !.d = d,
                     !.err = IF d = "ok" THEN "none" ELSE d,
                     !.written = IF d = "ok"
                                 THEN <<VideoDecode(readout.image_type, readout.depth, readout.raw)>>
                                 ELSE <<>>]
    /\ UNCHANGED <<connected, control_info, control_value, last_call, exposure_event,
                   exposure_status, pc, call, n_exposures, poll, poll_log,
                   video_vars, readiness, mount>>

NextReadout ==
    \/ \E d \in DriverOutcomes : SingleReadout(d)
    \/ \E d \in DriverOutcomes : VideoFrame(d)

(***************************************************************************)
(* Mount: slew_to_target of the bisque mount override                       *)
(***************************************************************************)
\* Threads that call Mount.slew_to_target.
Slewers == {"m1", "m2"}

\* Outcomes of one command to the mount (self.query, the parent's slew): it
\* returns, or it raises.
MountOutcomes == {"ok", "MountError"}

\* The commands of slew_to_target in the order of its statements (lines 30,
\* 31 and 34).
SlewCommands == <<"stop_moving", "stop_tracking", "slew_to_target">>

\* The mount at rest: is_slewing as the base class reports it; for each
\* caller its position in slew_to_target, the commands its current call has
\* sent to the mount, and how the call ended.
NoMount ==
    [is_slewing |-> FALSE,
     pc |-> [m \in Slewers |-> "idle"],
     cmds |-> [m \in Slewers |-> <<>>],
     err |-> [m \in Slewers |-> "none"]]

\* slew_to_target is called (line 20).
SlewCall(m) ==
    /\ mount.pc[m] \in {"idle", "done"}
    /\ mount' = [mount EXCEPT !.pc[m] = "check", !.cmds[m] = <<>>, !.err[m] = "none"]
    /\ UNCHANGED <<connected, control_info, control_value, last_call, exposure_event,
                   exposure_status, pc, call, n_exposures, poll, poll_log,
                   video_vars, readout, readiness>>

\* slew_to_target going on whether or not the mount is slewing.
SlewCheckUnguarded(m) ==
    /\ mount.pc[m] = "check"
    /\ mount' = [mount EXCEPT !.pc[m] = "stop_moving"]
    /\ UNCHANGED <<connected, control_info, control_value, last_call, exposure_event,
                   exposure_status, pc, call, n_exposures, poll, poll_log,
                   video_vars, readout, readiness>>

\* slew_to_target, lines 26-27: a mount that is slewing refuses the call.
SlewCheck(m) ==
    /\ mount.pc[m] = "check"
    /\ mount' = IF mount.is_slewing
                THEN [mount EXCEPT !.pc[m] = "done", !.err[m] = "PanError"]
                ELSE [mount EXCEPT !.pc[m] = "stop_moving"]
    /\ UNCHANGED <<connected, control_info, control_value, last_call, exposure_event,
                   exposure_status, pc, call, n_exposures, poll, poll_log,
                   video_vars, readout, readiness>>

\* Caller m sends one command to the mount: when the command raises, the
\* exception leaves the call; when it returns, the call goes on to next.  An
\* accepted slew command sets the mount slewing, an accepted stop_moving
\* ends its motion.
SlewSend(mt, m, command, next, d) ==
    [mt EXCEPT
       !.cmds[m] = Append(mt.cmds[m], command),
       !.pc[m] = IF d = "ok" THEN next ELSE "done",
       !.err[m] = IF d = "ok" THEN "none" ELSE d,
       !.is_slewing = IF d # "ok" THEN mt.is_slewing
                      ELSE IF command = "slew_to_target" THEN TRUE
                      ELSE IF command = "stop_moving" THEN FALSE
                      ELSE mt.is_slewing]

\* slew_to_target, line 30: self.query('stop_moving').
SlewStopMoving(m, d) ==
    /\ mount.pc[m] = "stop_moving"
    /\ mount' = SlewSend(mount, m, "stop_moving", "stop_tracking", d)
    /\ UNCHANGED <<connected, control_info, control_value, last_call, exposure_event,
                   exposure_status, pc, call, n_exposures, poll, poll_log,
                   video_vars, readout, readiness>>

\* slew_to_target, line 31: self.query('stop_tracking').
SlewStopTracking(m, d) ==
    /\ mount.pc[m] = "stop_tracking"
    /\ mount' = SlewSend(mount, m, "stop_tracking", "sleep", d)
    /\ UNCHANGED <<connected, control_info, control_value, last_call, exposure_event,
                   exposure_status, pc, call, n_exposures, poll, poll_log,
                   video_vars, readout, readiness>>

\* slew_to_target, line 32: time.sleep(10).
SlewSleep(m) ==
    /\ mount.pc[m] = "sleep"
    /\ mount' = [mount EXCEPT !.pc[m] = "slew"]
    /\ UNCHANGED <<connected, control_info, control_value, last_call, exposure_event,
                   exposure_status, pc, call, n_exposures, poll, poll_log,
                   video_vars, readout, readiness>>

\* slew_to_target, line 34: the parent's slew_to_target sends the slew
\* command and the call returns.
SlewParent(m, d) ==
    /\ mount.pc[m] = "slew"
    /\ mount' = SlewSend(mount, m, "slew_to_target", "done", d)
    /\ UNCHANGED <<connected, control_info, control_value, last_call, exposure_event,
                   exposure_status, pc, call, n_exposures, poll, poll_log,
                   video_vars, readout, readiness>>

\* The mount reaches its target, or is set moving from outside the class.
MountStatusChange ==
    /\ mount' = [mount EXCEPT !.is_slewing = ~mount.is_slewing]
    /\ UNCHANGED <<connected, control_info, control_value, last_call, exposure_event,
                   exposure_status, pc, call, n_exposures, poll, poll_log,
                   video_vars, readout, readiness>>

NextMount ==
    \/ \E m \in Slewers : SlewCall(m)
    \/ \E m \in Slewers : SlewCheck(m)
    \/ \E m \in Slewers, d \in MountOutcomes : SlewStopMoving(m, d)
    \/ \E m \in Slewers, d \in MountOutcomes : SlewStopTracking(m, d)
    \/ \E m \in Slewers : SlewSleep(m)
    \/ \E m \in Slewers, d \in MountOutcomes : SlewParent(m, d)
    \/ MountStatusChange

(***************************************************************************)
(* Readiness report                                                         *)
(***************************************************************************)
\* The readiness probe: the environment (temperature stability, each
\* subcomponent's readiness, the device status), the report last read from
\* it with its overall flag, and whether the environment is still as read.
Observed(temp, subs, status, is_ready) ==
    [temp |-> temp, subs |-> subs, status |-> status,
     report |-> Readiness(temp, subs, status),
     is_ready |-> is_ready,
     fresh |-> TRUE]

\* The probe outside the readiness specification: a ready camera.
NoReadiness ==
    Observed(TRUE, [s \in Subcomponents |-> TRUE], "IDLE", TRUE)

\* The cooling settles or drifts.
TemperatureChange ==
    /\ readiness' = [readiness EXCEPT !.temp = ~readiness.temp, !.fresh = FALSE]
    /\ UNCHANGED <<connected, control_info, control_value, last_call, exposure_event,
                   exposure_status, pc, call, n_exposures, poll, poll_log,
                   video_vars, readout, mount>>

\* A subcomponent starts or ends a move.
SubcomponentChange(sub) ==
    /\ readiness' = [readiness EXCEPT !.subs[sub] = ~readiness.subs[sub], !.fresh = FALSE]
    /\ UNCHANGED <<connected, control_info, control_value, last_call, exposure_event,
                   exposure_status, pc, call, n_exposures, poll, poll_log,
                   video_vars, readout, mount>>

\* The device reports another exposure status.
StatusChange(status) ==
    /\ status # readiness.status
    /\ readiness' = [readiness EXCEPT !.status = status, !.fresh = FALSE]
    /\ UNCHANGED <<connected, control_info, control_value, last_call, exposure_event,
                   exposure_status, pc, call, n_exposures, poll, poll_log,
                   video_vars, readout, mount>>

\* self.readiness and self.is_ready are read (lines 448-450).
ReadReadiness ==
    /\ readiness' = Observed(readiness.temp, readiness.subs, readiness.status,
                             IsReady(Readiness(readiness.temp, readiness.subs,
                                               readiness.status)))
    /\ UNCHANGED <<connected, control_info, control_value, last_call, exposure_event,
                   exposure_status, pc, call, n_exposures, poll, poll_log,
                   video_vars, readout, mount>>

NextReadiness ==
    \/ TemperatureChange
    \/ \E sub \in Subcomponents : SubcomponentChange(sub)
    \/ \E status \in {"IDLE", "WORKING", "SUCCESS", "FAILED"} : StatusChange(status)
    \/ ReadReadiness

InitProbes ==
    /\ readout = NoReadout
    /\ readiness = NoReadiness
    /\ mount = NoMount

InitCommon ==
    /\ control_value = [p \in Params |-> NoValue]
    /\ last_call = NoCall
    /\ exposure_event = TRUE
    /\ exposure_status = "IDLE"
    /\ pc = [c \in Callers |-> "idle"]
    /\ call = [c \in Callers |-> NoLocals]
    /\ n_exposures = 0
    /\ poll = [p \in Pollers |-> NoPoll]
    /\ poll_log = "none"

Init ==
    /\ connected = FALSE
    /\ control_info = EmptyTable
    /\ InitCommon
    /\ InitVideo
    /\ InitProbes

Next ==
    \/ Connect(ExposureTables)
    \/ \E c \in Callers, f \in BOOLEAN : Call(c, f)
    \/ \E c \in Callers, temp \in TempAnswers, subs \in SubAnswers,
          d \in DriverOutcomes : CheckReady(c, temp, subs, d)
    \/ \E c \in Callers, temp \in TempAnswers, subs \in SubAnswers :
          BuildMessage(c, temp, subs)
    \/ \E c \in Callers : CheckGate(c)
    \/ \E c \in Callers : ClearGate(c)
    \/ \E c \in Callers, s \in SecondsVals, d \in DriverOutcomes :
          StartSetExposure(c, s, d)
    \/ \E c \in Callers, d1 \in DriverOutcomes, d2 \in DriverOutcomes :
          StartDevice(c, d1, d2)
    \/ \E c \in Callers : ExceptStart(c)
    \/ \E c \in Callers, b \in BOOLEAN : Schedule(c, b)
    \/ \E c \in Callers : WaitGate(c)
    \/ \E p \in Pollers : PollStart(p)
    \/ \E p \in Pollers, d \in DriverOutcomes : PollCheck(p, d)
    \/ \E p \in Pollers, d \in DriverOutcomes : PollReadout(p, d)
    \/ \E p \in Pollers : PollFinally(p)
    \/ \E s \in {"SUCCESS", "FAILED"} : DeviceFinish(s)

Spec == Init /\ [][Next]_vars

InitControl ==
    /\ connected = TRUE
    /\ control_info \in CapTables
    /\ InitCommon
    /\ InitVideo
    /\ InitProbes

NextControl ==
    \/ \E name \in Params, v \in Values, d \in DriverOutcomes :
          ControlSetCall(name, v, d)
    \/ \E name \in Params, d \in DriverOutcomes : ControlGetCall(name, d)

SpecControl == InitControl /\ [][NextControl]_vars

\* A connected camera whose callers start and stop video sessions.
InitVideoSession ==
    /\ connected = TRUE
    /\ control_info \in ExposureTables
    /\ InitCommon
    /\ InitVideo
    /\ InitProbes

SpecVideo == InitVideoSession /\ [][NextVideo]_vars

\* A connected camera about to read out one exposure or one video frame.
InitReadout ==
    /\ connected = TRUE
    /\ control_info = [p \in Params |-> NominalEntry]
    /\ InitCommon
    /\ InitVideo
    /\ readout \in ReadoutInputs
    /\ readiness = NoReadiness
    /\ mount = NoMount

SpecReadout == InitReadout /\ [][NextReadout]_vars

\* One camera used for single exposures and for video: one take_exposure
\* caller and one video caller, the driver accepting every command.
InitShared ==
    /\ connected = TRUE
    /\ control_info = [p \in Params |-> NominalEntry]
    /\ InitCommon
    /\ InitVideo
    /\ InitProbes

NextShared ==
    \/ \E c \in {"c1"}, f \in {TRUE} : Call(c, f)
    \/ \E c \in {"c1"}, temp \in TempAnswers, subs \in SubAnswers : CheckReady(c, temp, subs, "ok")
    \/ \E c \in {"c1"}, temp \in TempAnswers, subs \in SubAnswers : BuildMessage(c, temp, subs)
    \/ \E c \in {"c1"} : CheckGate(c)
    \/ \E c \in {"c1"} : ClearGate(c)
    \/ \E c \in {"c1"} : StartSetExposure(c, 1, "ok")
    \/ \E c \in {"c1"} : StartDevice(c, "ok", "ok")
    \/ \E c \in {"c1"}, b \in BOOLEAN : Schedule(c, b)
    \/ \E c \in {"c1"} : WaitGate(c)
    \/ \E p \in Pollers : PollStart(p)
    \/ \E p \in Pollers : PollCheck(p, "ok")
    \/ \E p \in Pollers : PollReadout(p, "ok")
    \/ \E p \in Pollers : PollFinally(p)
    \/ \E s \in {"SUCCESS", "FAILED"} : DeviceFinish(s)
    \/ \E u \in Users : StartVideoSet(u, 1, "ok")
    \/ \E u \in Users : StartVideoCapture(u, "ok", "ok")
    \/ \E u \in Users : StartVideoClear(u)
    \/ \E u \in Users : StartVideoThread(u, 1)
    \/ \E u \in Users : StopVideoSet(u)
    \/ \E u \in Users : StopVideoDevice(u, "ok")
    \/ \E s \in Sessions : LoopInit(s, "ok")
    \/ \E s \in Sessions : LoopCheck(s)
    \/ \E s \in Sessions, data \in {"frame", "None"} : LoopPull(s, data, "ok")
    \/ \E s \in Sessions : LoopAfter(s)
    \/ \E s \in Sessions : LoopOwnStop(s, "ok")

SpecShared == InitShared /\ [][NextShared]_vars

\* A connected camera in any environment, its readiness not yet read.
InitReadiness ==
    /\ connected = TRUE
    /\ control_info = [p \in Params |-> NominalEntry]
    /\ InitCommon
    /\ InitVideo
    /\ readout = NoReadout
    /\ mount = NoMount
    /\ \E temp \in TempAnswers, subs \in SubAnswers,
          status \in {"IDLE", "WORKING", "SUCCESS", "FAILED"} :
          readiness = [NoReadiness EXCEPT !.temp = temp, !.subs = subs,
                                          !.status = status, !.fresh = FALSE]

SpecReadiness == InitReadiness /\ [][NextReadiness]_vars

\* A mount at rest, no slew_to_target call under way.
InitMount ==
    /\ connected = FALSE
    /\ control_info = EmptyTable
    /\ InitCommon
    /\ InitVideo
    /\ InitProbes

SpecMount == InitMount /\ [][NextMount]_vars

(***************************************************************************)
(* Fair scheduling                                                          *)
(***************************************************************************)
\* The statements of take_exposure caller c that follow the call's entry.
CallerStep(c) ==
    \/ \E temp \in TempAnswers, subs \in SubAnswers, d \in DriverOutcomes :
          CheckReady(c, temp, subs, d)
    \/ \E temp \in TempAnswers, subs \in SubAnswers : BuildMessage(c, temp, subs)
    \/ CheckGate(c)
    \/ ClearGate(c)
    \/ \E s \in SecondsVals, d \in DriverOutcomes : StartSetExposure(c, s, d)
    \/ \E d1 \in DriverOutcomes, d2 \in DriverOutcomes : StartDevice(c, d1, d2)
    \/ ExceptStart(c)
    \/ \E b \in BOOLEAN : Schedule(c, b)
    \/ WaitGate(c)

\* The statements of completion poller p (the Timer thread of line 488).
PollerStep(p) ==
    \/ PollStart(p)
    \/ \E d \in DriverOutcomes : PollCheck(p, d)
    \/ \E d \in DriverOutcomes : PollReadout(p, d)
    \/ PollFinally(p)

\* Every thread that can take a step is scheduled sooner or later: a caller
\* inside take_exposure goes on to its next statement, a started Timer fires
\* and its thread runs to its end.  Nothing is assumed of the device or of
\* new calls being made.
Fairness ==
    /\ \A c \in Callers : WF_vars(CallerStep(c))
    /\ \A p \in Pollers : WF_vars(PollerStep(p))

SpecFair == Init /\ [][Next]_vars /\ Fairness

(***************************************************************************)
(* Properties                                                               *)
(***************************************************************************)
\* Pollers whose timer, poll loop, readout or finally clause is still to run.
ActivePollers == {p \in Pollers : poll[p].pc \in {"scheduled", "polling", "readout", "finally"}}

\* Callers that have issued start_exposure and not yet created the poller.
Started == {c \in Callers : pc[c] = "schedule"}

\* Callers between setting the gate to pending and leaving take_exposure's
\* start step.
Holding == {c \in Callers : pc[c] \in {"start_set", "start_dev", "except", "schedule"}}

\* C1: at most one exposure is outstanding at a time: the exposures started
\* on the device whose poller has not yet cleared the gate number at most one,
\* whatever the interleaving of the callers.
C1_SingleExposure == Cardinality(Started) + Cardinality(ActivePollers) <= 1

\* C2: a caller that reads the gate while it is pending fails with PanError,
\* and that step issues no device command, creates no poller and leaves the
\* gate, the device and every poller as they were.
C2_RejectedWhilePending ==
    [][\A c \in Callers :
          (pc[c] = "check_gate" /\ ~exposure_event /\ pc'[c] /= pc[c]) =>
              /\ pc'[c] = "done"
              /\ call'[c].err \in PanErrors
              /\ call'[c].reason = "gate_pending"
              /\ ~exposure_event'
              /\ UNCHANGED <<exposure_status, control_value, n_exposures,
                             poll, poll_log>>]_vars

\* C2 witness: a call was rejected at the gate while the first exposure was
\* pending, and that exposure's poller has since read out and cleared the gate.
C2_Witness ==
    \E c \in Callers :
        /\ pc[c] = "done"
        /\ call[c].reason = "gate_pending"
        /\ n_exposures = 1
        /\ poll[1].pc = "done"
        /\ poll_log = "ok"
        /\ exposure_event

\* C3: the gate is never clear while a poller's poll loop, readout or finally
\* clause is still in progress.
C3_GateClearedLast ==
    \A p \in Pollers :
        poll[p].pc \in {"polling", "readout", "finally"} => ~exposure_event

\* No exposure is outstanding and no caller holds the gate, and the poller
\* that finished last ended with Timeout.
AfterTimeout ==
    /\ poll_log = "Timeout"
    /\ exposure_event
    /\ ActivePollers = {}
    /\ Holding = {}

C5_StartFailureRestoresGate ==
    [][\A c \in Callers :
          (pc[c] \in {"start_set", "start_dev", "except"} /\ pc'[c] = "done") =>
              /\ exposure_event'
              /\ call'[c].err \in PanErrors
              /\ n_exposures' = n_exposures
              /\ poll' = poll]_vars

\* C6: a take_exposure call that ends because the camera is not connected or
\* no filename was given ends with PanError.
C6_PreconditionPanError ==
    \A c \in Callers :
        (pc[c] = "done" /\ call[c].reason \in {"not_connected", "no_filename"}) =>
            call[c].err \in PanErrors

\* C7: the message of a call turned away as not ready names every subsystem
\* that was unready at the go/no-go check.
C7_MessageNamesUnready ==
    [][\A c \in Callers :
          (pc[c] = "build_msg" /\ pc'[c] = "done") =>
              call[c].unready \subseteq call'[c].problems]_vars

\* numpy-style clip of v into [lo, hi].
Clip(v, lo, hi) == IF v > hi THEN hi ELSE IF v < lo THEN lo ELSE v

\* The last direct call was _control_setter on a parameter that is in the
\* table and writable.
LastSetWritable ==
    /\ last_call.op = "set"
    /\ last_call.name \in DOMAIN control_info
    /\ control_info[last_call.name].is_writable

\* C8: a numeric value set on a writable parameter sends exactly one value,
\* clip(v, min, max), to the device; when the driver accepts the command the
\* call raises IllegalValue exactly when v is out of range, raises nothing when
\* v is in range (bounds included), and the device holds the clipped value.
C8_SetterClips ==
    (LastSetWritable /\ last_call.value.kind = "num") =>
        LET e == control_info[last_call.name]
            v == last_call.value.n
            clipped == Num(Clip(v, e.min_value, e.max_value))
            in_range == e.min_value <= v /\ v <= e.max_value
        IN  /\ last_call.sent = <<clipped>>
            /\ last_call.d = "ok" =>
                  /\ (last_call.err = "IllegalValue") <=> ~in_range
                  /\ in_range => last_call.err = "none"
                  /\ control_value[last_call.name] = clipped

\* C8 witness: a value above max was set; the device holds max and the call
\* raised IllegalValue.
C8_Witness ==
    /\ LastSetWritable
    /\ last_call.value.kind = "num"
    /\ last_call.value.n > control_info[last_call.name].max_value
    /\ last_call.d = "ok"
    /\ last_call.err = "IllegalValue"
    /\ control_value[last_call.name] = Num(control_info[last_call.name].max_value)

\* C9 as stated: for every parameter of the table, setting AUTO raises
\* IllegalValue exactly when the table marks AUTO unsupported, and otherwise
\* succeeds with AUTO sent to the device (the driver accepting the command).
C9_AutoEveryParameter ==
    (/\ last_call.op = "set"
     /\ last_call.name \in DOMAIN control_info
     /\ last_call.value = AUTO
     /\ last_call.d = "ok") =>
        LET e == control_info[last_call.name]
        IN  /\ (last_call.err = "IllegalValue") <=> ~e.is_auto_supported
            /\ e.is_auto_supported =>
                  (last_call.err = "none" /\ last_call.sent = <<AUTO>>)

\* C9 amended: for every writable parameter of the table, setting AUTO raises
\* IllegalValue (nothing sent) exactly when the table marks AUTO unsupported,
\* and otherwise succeeds with AUTO sent to the device (the driver accepting
\* the command).
C9_AutoWritableParameter ==
    (LastSetWritable /\ last_call.value = AUTO) =>
        LET e == control_info[last_call.name]
        IN  /\ ~e.is_auto_supported =>
                  (last_call.err = "IllegalValue" /\ last_call.sent = <<>>)
            /\ e.is_auto_supported =>
                  /\ last_call.sent = <<AUTO>>
                  /\ last_call.err /= "IllegalValue"
                  /\ last_call.d = "ok" =>
                        (last_call.err = "none" /\ control_value[last_call.name] = AUTO)

\* C9 witness: AUTO was refused with IllegalValue on a writable parameter that
\* does not support it.
C9_Witness ==
    /\ LastSetWritable
    /\ last_call.value = AUTO
    /\ ~control_info[last_call.name].is_auto_supported
    /\ last_call.err = "IllegalValue"

\* C10: a get or set of a name absent from the table, and a set of a
\* parameter that is not writable, raise NotSupported and no get or set
\* command reaches the driver.
C10_UnsupportedRejected ==
    /\ (last_call.op = "get" /\ last_call.name \notin DOMAIN control_info) =>
          (last_call.err = "NotSupported" /\ last_call.gets = 0 /\ last_call.sent = <<>>)
    /\ (last_call.op = "set" /\ ~LastSetWritable) =>
          (last_call.err = "NotSupported" /\ last_call.gets = 0 /\ last_call.sent = <<>>)

\* C10 witness: a set of a parameter that is in the table but not writable was
\* refused with NotSupported, the device untouched.
C10_Witness ==
    /\ last_call.op = "set"
    /\ last_call.name \in DOMAIN control_info
    /\ ~control_info[last_call.name].is_writable
    /\ last_call.err = "NotSupported"
    /\ control_value[last_call.name] = NoValue

\* Value v is one the table allows on parameter p: p is present and writable,
\* and v is a number within [min_value, max_value] or AUTO where supported.
Allowed(p, v) ==
    /\ p \in DOMAIN control_info
    /\ control_info[p].is_writable
    /\ \/ /\ v.kind = "num"
          /\ control_info[p].min_value <= v.n
          /\ v.n <= control_info[p].max_value
       \/ /\ v = AUTO
          /\ control_info[p].is_auto_supported

\* C11: after any sequence of control-setter calls, every value the device
\* holds and every value the last call sent to the driver is allowed by the
\* table: its parameter is present and writable, and it is a number within
\* [min, max] or AUTO on a parameter that supports AUTO.
C11_DeviceValuesAllowed ==
    /\ \A p \in Params : control_value[p] /= NoValue => Allowed(p, control_value[p])
    /\ \A i \in 1 .. Len(last_call.sent) : Allowed(last_call.name, last_call.sent[i])

\* C11 witness: one parameter holds a number, another holds AUTO, and the
\* last call asked for a number below min and had min sent instead.
C11_Witness ==
    /\ \E p \in Params : control_value[p].kind = "num"
    /\ \E p \in Params : control_value[p] = AUTO
    /\ last_call.op = "set"
    /\ last_call.value.kind = "num"
    /\ last_call.name \in DOMAIN control_info
    /\ last_call.value.n < control_info[last_call.name].min_value
    /\ last_call.sent = <<Num(control_info[last_call.name].min_value)>>

\* C12: a take_exposure call that has started its poller returns in one of
\* two ways.  With blocking false it returns at once, whatever the gate, so
\* it can return while the gate is pending; with blocking true it first
\* waits, and the step that returns from the wait is taken only with the gate
\* clear and leaves the gate as it is.  Both return without an error.
C12_BlockingWaitsForGate ==
    [][\A c \in Callers :
          /\ (pc[c] = "schedule" /\ pc'[c] # "schedule") =>
                \/ pc'[c] = "wait" /\ call'[c] = call[c]
                \/ /\ pc'[c] = "done"
                   /\ call'[c] = Outcome("none", "started")
                   /\ exposure_event' = exposure_event
          /\ (pc[c] = "wait" /\ pc'[c] # "wait") =>
                /\ exposure_event
                /\ exposure_event'
                /\ pc'[c] = "done"
                /\ call'[c] = Outcome("none", "waited")]_vars

\* C12 witness: one caller has returned from a blocking call, another from a
\* call with blocking false whose exposure is still pending behind the gate.
C12_Witness ==
    /\ \E c \in Callers : pc[c] = "done" /\ call[c] = Outcome("none", "waited")
    /\ \E c \in Callers : pc[c] = "done" /\ call[c] = Outcome("none", "started")
    /\ ~exposure_event
    /\ ActivePollers # {}

\* C13: a call of _readout writes an image exactly when the final status is
\* SUCCESS and the data pull succeeds; in every other case (FAILED, IDLE, any
\* other status, any failure of the pull) it writes nothing and fails with
\* PanError, whose message carries an unexpected status as it came.
C13_ReadoutWritesOrPanError ==
    readout.kind = "single" =>
        /\ (readout.written # <<>>) <=> (readout.status = "SUCCESS" /\ readout.d = "ok")
        /\ readout.written = <<>> => readout.err = "PanError"
        /\ readout.written # <<>> => readout.err = "none"
        /\ (readout.status \notin {"SUCCESS", "FAILED", "IDLE"}) =>
              readout.detail = readout.status

\* C14: a sample written by the single-exposure readout or by the video loop,
\* for a sensor depth d and an output width w >= d, is the raw sample shifted
\* right by w - d, i.e. the one number out with out * 2^(w-d) <= raw <
\* (out + 1) * 2^(w-d); where the encoding does not pad (any type but RAW16,
\* or d = w) the sample is written unchanged.
C14_DecodeShiftsPad ==
    (readout.kind \in {"single", "video"} /\ readout.written # <<>>) =>
        LET w == Width(readout.image_type)
            out == readout.written[1]
        IN  /\ w >= readout.depth =>
                  /\ out * Pow2(w - readout.depth) <= readout.raw
                  /\ readout.raw < (out + 1) * Pow2(w - readout.depth)
            /\ (readout.image_type # "RAW16" \/ readout.depth = w) => out = readout.raw

\* C14 witness: a 12-bit sensor, RAW16 output, raw 0xFFF0 is written as 0x0FFF.
C14_Witness ==
    /\ readout.kind = "single"
    /\ readout.image_type = "RAW16"
    /\ readout.depth = 12
    /\ readout.raw = 65520
    /\ readout.written = <<4095>>

\* The step ends video thread s, and not by an exception of a driver command
\* (those leave the thread from its init, pull and own stop steps).
EndsUnfaulted(s) ==
    /\ loop[s].pc \in {"init", "check", "pull", "after", "own_stop"}
    /\ loop'[s].pc \in {"done", "crashed"}
    /\ loop'[s].pc = "crashed" => loop[s].pc = "after"

\* C15: a video thread started with max_frames = N >= 0, the only one of its
\* camera, that no caller's stop_video has reached, ends by returning, having
\* pulled at most N frames and having made its own stop_video call (it ends
\* from the second statement of that call).
C15_OwnStopOnce ==
    [][\A s \in Sessions :
          (EndsUnfaulted(s) /\ n_sessions = 1 /\ loop[s].req = -1) =>
              /\ loop'[s].pc = "done"
              /\ loop[s].pc = "own_stop"
              /\ Pulls(loop[s]) <= loop[s].max_frames]_vars

\* C16: once a caller's stop_video has set the flag during a video thread's
\* run, after req frames pulled, the thread pulls at most the one frame it
\* was pulling at that time: it never has more than req + 1 frames pulled.
C16_StopHaltsPulls ==
    \A s \in Sessions : loop[s].req >= 0 => Pulls(loop[s]) <= loop[s].req + 1

\* C17: stop_video behaves the same in every state, whoever calls it and
\* however often.  Its first statement leaves the stop flag set and the
\* device as it was.  Its second statement, called by a caller, ends the call
\* with no error but one of the driver command; when the command is accepted
\* the capture is stopped, and the flag is still set unless a start_video
\* statement came between the two.  The same holds of the call made by a
\* video thread, which returns exactly when the command is accepted.
C17_StopVideoIdempotent ==
    [][/\ \A u \in Users :
             /\ (vpc[u] = "idle" /\ vpc'[u] = "st_device") =>
                   (video_event' /\ capturing' = capturing)
             /\ (vpc[u] = "st_device" /\ vpc'[u] = "idle") =>
                   /\ vlog' \in {"none"} \cup DriverErrors
                   /\ video_event' = video_event
                   /\ vlog' = "none" => (~capturing' /\ (vclean[u] => video_event'))
       /\ \A s \in Sessions :
             /\ (loop[s].pc = "after" /\ loop'[s].pc = "own_stop") =>
                   (video_event' /\ capturing' = capturing)
             /\ (loop[s].pc = "own_stop" /\ loop'[s].pc = "done") =>
                   (~capturing' /\ (loop[s].clean => video_event'))]_vars

\* C17 witness: a caller's stop_video and a video thread's own stop_video are
\* both between their two statements, on a device whose capture another
\* stop_video call has already stopped.
C17_Witness ==
    /\ \E u \in Users : vpc[u] = "st_device" /\ vclean[u]
    /\ \E s \in Sessions : loop[s].pc = "own_stop" /\ loop[s].clean
    /\ \E s \in Sessions : loop[s].pc = "done"
    /\ video_event
    /\ ~capturing

\* C18: single exposures and video sessions exclude each other: in no
\* reachable state is a video thread running while an exposure is
\* outstanding (started on the device, or with its poller still to finish).
C18_ExposureVideoExclusive ==
    ~(ActiveLoops # {} /\ (Started # {} \/ ActivePollers # {}))

C20_FaultReachesCaller ==
    \A c \in Callers :
        (/\ pc[c] = "done"
         /\ call[c].reason = "waited"
         /\ n_exposures = 1
         /\ poll[1].pc = "done"
         /\ poll_log # "ok") =>
            (call[c].err # "none" \/ exposure_status # "SUCCESS")

\* C21: under fair scheduling, whenever a take_exposure call has just set the
\* gate to pending the gate is clear again at some later time.
C21_GateEventuallyClear ==
    (\E c \in Callers : pc[c] = "start_set") ~> exposure_event

C23_GatePendingAtStart ==
    [][\A c \in Callers :
          (pc[c] \in {"start_set", "start_dev"} /\ pc'[c] # pc[c]) => ~exposure_event]_vars

\* C24: in a video thread good_frames + bad_frames is at every point the
\* number of frame pulls made so far (one for each index before the current
\* one, and one more once the current pull has returned) and never exceeds
\* max_frames.  A pull that returns leaves the thread in its loop, at the
\* check for the next index, with exactly one of the two counters raised by
\* one; on a device that is not capturing, where the pull returns a null
\* result, it is bad_frames.  The only other way out of a pull is the thread
\* ending with the exception of the driver command.
C24_DroppedFramesCounted ==
    /\ [](\A s \in Sessions :
             /\ Pulls(loop[s]) <= loop[s].max_frames
             /\ loop[s].pc = "pull" => Pulls(loop[s]) = loop[s].frame_number
             /\ loop[s].pc = "check" => Pulls(loop[s]) = loop[s].frame_number + 1)
    /\ [][\A s \in Sessions :
             (loop[s].pc = "pull" /\ loop'[s].pc # "pull") =>
                 \/ loop'[s].pc = "crashed"
                 \/ /\ loop'[s].pc = "check"
                    /\ loop'[s].frame_number = loop[s].frame_number
                    /\ \/ /\ loop'[s].bad_frames = loop[s].bad_frames + 1
                          /\ loop'[s].good_frames = loop[s].good_frames
                       \/ /\ loop'[s].good_frames = loop[s].good_frames + 1
                          /\ loop'[s].bad_frames = loop[s].bad_frames
                          /\ capturing]_vars

\* C24 witness: a video thread has had a null result from every one of its
\* pulls, MaxFrames in a row, and has left its loop at the end of the range
\* with all of them counted as dropped.
C24_Witness ==
    \E s \in Sessions :
        /\ loop[s].pc = "after"
        /\ loop[s].max_frames = MaxFrames
        /\ loop[s].bad_frames = MaxFrames
        /\ loop[s].good_frames = 0
        /\ loop[s].frame_number = MaxFrames - 1

\* C25: a video thread makes its own stop_video call only if no caller's
\* stop_video has set the flag during the thread's run: a thread that a
\* caller's stop_video has reached, at whatever index, does not go on to a
\* stop_video call (and a second device stop command) of its own.
C25_OwnStopOnlyUnstopped ==
    [][\A s \in Sessions :
          (loop[s].pc = "after" /\ loop'[s].pc = "own_stop") => loop[s].req = -1]_vars

\* C26: a poller calls _readout at most once and only on normal completion.
\* It enters the readout only from its poll loop, at a step where the device
\* does not report WORKING; it leaves the readout only for its finally
\* clause; and once it is in the finally clause or has ended (which is where
\* a timeout or a driver error while polling takes it directly) it never
\* comes to a readout.
C26_ReadoutOnceOnCompletion ==
    [][\A p \in Pollers :
          /\ (poll[p].pc # "readout" /\ poll'[p].pc = "readout") =>
                (poll[p].pc = "polling" /\ ~IsExposing(exposure_status))
          /\ (poll[p].pc = "readout" /\ poll'[p].pc # "readout") =>
                poll'[p].pc = "finally"
          /\ (poll[p].pc = "polling" /\ poll'[p].pc = "finally") =>
                poll'[p].result \in {"Timeout"} \cup DriverErrors
          /\ (poll[p].pc \in {"finally", "done"}) =>
                poll'[p].pc \in {"finally", "done"}]_vars

\* C26 witness: the first poller timed out and ended without a readout; the
\* second has read out its exposure and is in its finally clause.
C26_Witness ==
    /\ poll[1].pc = "done"
    /\ poll_log = "Timeout"
    /\ poll[2].pc = "finally"
    /\ poll[2].result = "ok"

\* The duration is outside [min_value, max_value] of a writable EXPOSURE entry.
OutOfRange(seconds) ==
    /\ "EXPOSURE" \in DOMAIN control_info
    /\ control_info["EXPOSURE"].is_writable
    /\ \/ seconds < control_info["EXPOSURE"].min_value
       \/ seconds > control_info["EXPOSURE"].max_value

\* C27: when a take_exposure call that has passed the readiness and gate
\* checks applies a duration outside the EXPOSURE range, the value sent to the
\* device is the clipped one (and the device holds it when the driver accepts
\* it), and the call goes to its error handler, not on to the start command:
\* from there it returns with PanError and the gate clear, no poller created
\* and the device's exposure status untouched.
C27_OutOfRangeDuration ==
    [][/\ \A c \in Callers, s \in SecondsVals, d \in DriverOutcomes :
             (StartSetExposure(c, s, d) /\ OutOfRange(s)) =>
                 LET e == control_info["EXPOSURE"]
                     clipped == Num(Clip(s, e.min_value, e.max_value))
                 IN  /\ ControlSetter(control_info, "EXPOSURE", Num(s), d).sent = <<clipped>>
                     /\ d = "ok" => control_value'["EXPOSURE"] = clipped
                     /\ pc'[c] = "except"
                     /\ UNCHANGED <<n_exposures, poll, exposure_status>>
       /\ \A c \in Callers :
             (pc[c] = "except" /\ pc'[c] # "except") =>
                 /\ pc'[c] = "done"
                 /\ call'[c].err \in PanErrors
                 /\ exposure_event'
                 /\ UNCHANGED <<n_exposures, poll, exposure_status>>]_vars

\* C28: at most one video thread pulls frames at a time: a thread that a
\* caller's stop_video has reached after req pulls, and that has since
\* completed a further pull, is never pulling again while the thread of a
\* later session pulls.
C28_StoppedLoopYields ==
    \A s \in Sessions, t \in Sessions :
        (s # t /\ loop[s].req >= 0 /\ loop[t].pc = "pull") =>
            ~(loop[s].pc = "pull" /\ Pulls(loop[s]) > loop[s].req)

\* Sequence s is an initial part of sequence t.
IsPrefix(s, t) == Len(s) <= Len(t) /\ \A i \in 1 .. Len(s) : s[i] = t[i]

\* C29: the commands a slew_to_target call sends to the mount are, at every
\* point, an initial part of stop_moving, stop_tracking, slew command: the
\* slew command is never sent before both stop commands.  A call that finds
\* the mount slewing ends with PanError and has sent no command; a call that
\* finds it at rest goes on to stop_moving; a call that returns without an
\* error has sent all three commands.
C29_StopsBeforeSlew ==
    /\ [](\A m \in Slewers :
             /\ IsPrefix(mount.cmds[m], SlewCommands)
             /\ (mount.pc[m] = "done" /\ mount.err[m] = "PanError") => mount.cmds[m] = <<>>
             /\ (mount.pc[m] = "done" /\ mount.err[m] = "none") => mount.cmds[m] = SlewCommands)
    /\ [][\A m \in Slewers :
             (mount.pc[m] = "check" /\ mount'.pc[m] # "check") =>
                 IF mount.is_slewing
                 THEN /\ mount'.pc[m] = "done"
                      /\ mount'.err[m] = "PanError"
                      /\ mount'.cmds[m] = <<>>
                 ELSE /\ mount'.pc[m] = "stop_moving"
                      /\ mount'.cmds[m] = <<>>]_vars

\* C29 witness: one call has returned from the parent's slew with the three
\* commands sent in order; another, made while the mount was slewing, has
\* ended with PanError and no command sent.
C29_Witness ==
    /\ mount.pc["m1"] = "done"
    /\ mount.err["m1"] = "none"
    /\ mount.cmds["m1"] = SlewCommands
    /\ mount.pc["m2"] = "done"
    /\ mount.err["m2"] = "PanError"
    /\ mount.cmds["m2"] = <<>>
    /\ mount.is_slewing

====
